---- MODULE Spec2Model ----
(***************************************************************************)
(* Face enrollment / verification pipeline of backend/faceid:              *)
(* SimpleFaceRecognitionService (simple_face_service.py), the liveness     *)
(* detector (liveness_detection.py), the similarity helpers (utils.py) and *)
(* the routes that drive them against the Person / FaceEmbedding /         *)
(* VerificationAttempt tables (routes.py, test_routes.py, models.py).      *)
(*                                                                         *)
(* Numbers: scores and similarities are kept in hundredths (0.40 is 40).   *)
(* A vector is [num, den2] and denotes num / sqrt(den2), so that           *)
(* L2-normalisation is exact on integers.  An optional value is <<>> for   *)
(* None and <<x>> for a present x.                                         *)
(***************************************************************************)
EXTENDS Integers, Sequences, FiniteSets, TLC

\* ------------------------------------------------------------------ bounds
MaxCalls == 2          \* enroll and verify requests started in one behaviour
MaxPhotos == 2         \* images in one enroll request
MaxStored == 2         \* vectors of the second person of a stored base
MaxFrames == 6         \* frames in one multi-frame request

\* --------------------------------------------------------------- constants
THRESHOLD_HIGH_CONFIDENCE == 40
THRESHOLD_MEDIUM_CONFIDENCE == 30
LIVENESS_TEXTURE_THRESHOLD == 30
LIVENESS_MIN_FRAMES == 5
SimScale == 100
LOG_ATTEMPTS == TRUE

None == <<>>
Some(x) == <<x>>

\* VerdictEnum / LivenessEnum values
MATCH == "match"
POSSIBLE_MATCH == "possible_match"
NOT_FOUND == "not_found"
SPOOF == "spoof"
NO_FACE_DETECTED == "no_face_detected"
VerdictEnum == {MATCH, POSSIBLE_MATCH, NOT_FOUND, SPOOF, NO_FACE_DETECTED}
LIVE == "live"
UNKNOWN == "unknown"
LivenessEnum == {LIVE, SPOOF, UNKNOWN}

\* ------------------------------------------------------------------ inputs
\* An image is what the pipeline reads off its pixels: whether the cascade
\* finds a face, the raw 4-bin descriptor of that face, the texture and
\* frequency scores of the frame and the lighting and blur scores of the face
\* region (hundredths).
Images ==
  { [k |-> 1, face |-> TRUE,  hist |-> <<1, 0, 0, 0>>, texture |-> 60, frequency |-> 40,
      lighting |-> 80, blur |-> 10],
    [k |-> 2, face |-> TRUE,  hist |-> <<2, 4, 2, 1>>, texture |-> 10, frequency |-> 10,
      lighting |-> 80, blur |-> 10],
    [k |-> 3, face |-> TRUE,  hist |-> <<3, 9, 3, 1>>, texture |-> 30, frequency |-> 18,
      lighting |-> 80, blur |-> 10],
    [k |-> 4, face |-> TRUE,  hist |-> <<0, 0, 0, 1>>, texture |-> 50, frequency |-> 12,
      lighting |-> 80, blur |-> 10],
    [k |-> 5, face |-> FALSE, hist |-> <<0, 0, 0, 0>>, texture |-> 40, frequency |-> 40,
      lighting |-> 80, blur |-> 10] }
TestImage == CHOOSE i \in Images : i.k = 1     \* images/almas.jpg of the test routes
EnrollImages == { i \in Images : i.k \in {1, 5} }
PersonIds == {"alice", "bob"}
NameOf == [ i \in PersonIds |-> IF i = "alice" THEN "Alice" ELSE "Bob" ]
Calls == {1, 2}
VerifyRoutes == {"verify", "test_verification"}

RECURSIVE SeqsUpTo(_, _)
SeqsUpTo(S, n) ==
  IF n = 0 THEN { <<>> }
  ELSE LET shorter == SeqsUpTo(S, n - 1)
       IN shorter \cup { Append(s, x) : s \in { t \in shorter : Len(t) = n - 1 }, x \in S }

\* ------------------------------------------------------------ utils.py
RECURSIVE Dot(_, _)
Dot(a, b) == IF a = <<>> \/ b = <<>> THEN 0 ELSE a[1] * b[1] + Dot(Tail(a), Tail(b))

\* largest k in 0..SimScale with (k / SimScale)^2 <= n / d   (n >= 0, d > 0)
RootRatio(n, d) ==
  IF n >= d THEN SimScale
  ELSE CHOOSE k \in 0 .. (SimScale - 1) :
         /\ k * k * d <= SimScale * SimScale * n
         /\ (k + 1) * (k + 1) * d > SimScale * SimScale * n

\* np.linalg.norm, in hundredths
Norm(e) == RootRatio(Dot(e.num, e.num), e.den2)

normalize_embedding(e) ==
  LET n2 == Dot(e.num, e.num)
  IN IF n2 = 0 THEN e ELSE [num |-> e.num, den2 |-> n2]

\* line 46 without the clip
cosine_similarity_unclipped(e1, e2) ==
  LET a == normalize_embedding(e1)
      b == normalize_embedding(e2)
      d == Dot(a.num, b.num)
  IN IF d = 0 THEN 0
     ELSE IF d < 0 THEN 0 - RootRatio(d * d, a.den2 * b.den2)
     ELSE RootRatio(d * d, a.den2 * b.den2)

cosine_similarity(e1, e2) ==
  LET a == normalize_embedding(e1)
      b == normalize_embedding(e2)
      d == Dot(a.num, b.num)
  IN IF d <= 0 THEN 0 ELSE RootRatio(d * d, a.den2 * b.den2)

\* tobytes / frombuffer: the byte string keeps the element type it was
\* written with; reading it back with another dtype gives another vector.
embedding_to_binary(e) == [dtype |-> "float32", num |-> e.num, den2 |-> e.den2]
binary_to_embedding(b, dtype) ==
  IF b.dtype = dtype THEN [num |-> b.num, den2 |-> b.den2]
  ELSE [num |-> <<>>, den2 |-> 1]

\* ------------------------------------------------- liveness_detection.py
\* lines 76 and 78 with the thresholds themselves counted in
_check_single_frame_inclusive(frame) ==
  LET sum == frame.texture + frame.frequency
  IN IF sum >= 2 * LIVENESS_TEXTURE_THRESHOLD THEN LIVE
     ELSE IF 10 * sum <= 2 * 6 * LIVENESS_TEXTURE_THRESHOLD THEN SPOOF
     ELSE UNKNOWN

_check_single_frame(frame) ==
  LET sum == frame.texture + frame.frequency       \* twice combined_score
  IN IF sum > 2 * LIVENESS_TEXTURE_THRESHOLD THEN LIVE
     ELSE IF 10 * sum < 2 * 6 * LIVENESS_TEXTURE_THRESHOLD THEN SPOOF
     ELSE UNKNOWN

\* A score of the multi-frame analysis is the fraction n / d (d > 0).  A frame of
\* a burst carries its grayscale pixels in gray.
RECURSIVE SeqSum(_)
SeqSum(xs) == IF xs = << >> THEN 0 ELSE xs[1] + SeqSum(Tail(xs))
Abs(x) == IF x < 0 THEN 0 - x ELSE x

\* lines 237-242 without the branch for too little motion
MotionScore_static_ideal(an, ad) ==
  IF 10 * an < ad THEN [n |-> 1, d |-> 1]
  ELSE IF 3 * ad - 10 * an < ad THEN [n |-> 1, d |-> 2]
  ELSE [n |-> 3 * ad - 10 * an, d |-> 2 * ad]

\* lines 237-242 for an average motion of an / ad
MotionScore(an, ad) ==
  IF 100 * an < ad THEN [n |-> 100 * an, d |-> ad]
  ELSE IF 10 * an < ad THEN [n |-> 1, d |-> 1]
  ELSE IF 3 * ad - 10 * an < ad THEN [n |-> 1, d |-> 2]
  ELSE [n |-> 3 * ad - 10 * an, d |-> 2 * ad]

\* mean absolute difference of two frames over their pixels, times the pixel count
FrameDiff(g, h) == SeqSum([ i \in 1 .. Len(g) |-> Abs(g[i] - h[i]) ])

\* line 230 leaving the total undivided by the number of frame pairs
_calculate_motion_score_total(gray_frames) ==
  IF Len(gray_frames) < 2 THEN [n |-> 0, d |-> 1]
  ELSE LET total_motion ==
             SeqSum([ i \in 1 .. (Len(gray_frames) - 1) |->
                        FrameDiff(gray_frames[i + 1], gray_frames[i]) ])
       IN MotionScore(total_motion, 255 * Len(gray_frames[1]))

_calculate_motion_score(gray_frames) ==
  IF Len(gray_frames) < 2 THEN [n |-> 0, d |-> 1]
  ELSE LET total_motion ==
             SeqSum([ i \in 1 .. (Len(gray_frames) - 1) |->
                        FrameDiff(gray_frames[i + 1], gray_frames[i]) ])
       IN MotionScore(total_motion,
                      255 * Len(gray_frames[1]) * (Len(gray_frames) - 1))

_calculate_temporal_variance(gray_frames) ==
  IF Len(gray_frames) < 2 THEN [n |-> 0, d |-> 1]
  ELSE LET t == Len(gray_frames)
           \* t * t times the variance over time of pixel i
           var(i) == LET x == [ j \in 1 .. t |-> gray_frames[j][i] ]
                         xx == [ j \in 1 .. t |-> gray_frames[j][i] * gray_frames[j][i] ]
                     IN t * SeqSum(xx) - SeqSum(x) * SeqSum(x)
           total == SeqSum([ i \in 1 .. Len(gray_frames[1]) |-> var(i) ])
           den == 10 * t * t * Len(gray_frames[1])
       IN IF total > den THEN [n |-> 1, d |-> 1] ELSE [n |-> total, d |-> den]

\* _analyze_texture of a frame: the texture score read off it
_analyze_texture(frame) == [n |-> frame.texture, d |-> SimScale]

\* line 116 with the weights of motion and texture exchanged
MultiFrameScores_weights_swapped(frames) ==
  LET gray_frames == [ i \in 1 .. Len(frames) |-> frames[i].gray ]
      m == _calculate_motion_score(gray_frames)
      t == _analyze_texture(frames[1])
      v == _calculate_temporal_variance(gray_frames)
  IN [motion_score |-> m, texture_score |-> t, variance_score |-> v,
      combined10 |-> [n |-> 3 * m.n * t.d * v.d + 5 * t.n * m.d * v.d + 2 * v.n * m.d * t.d,
                      d |-> m.d * t.d * v.d]]

\* lines 107-125: the scores of the multi-frame analysis; combined10 is ten
\* times the combined score
MultiFrameScores(frames) ==
  LET gray_frames == [ i \in 1 .. Len(frames) |-> frames[i].gray ]
      m == _calculate_motion_score(gray_frames)
      t == _analyze_texture(frames[1])
      v == _calculate_temporal_variance(gray_frames)
  IN [motion_score |-> m, texture_score |-> t, variance_score |-> v,
      combined10 |-> [n |-> 5 * m.n * t.d * v.d + 3 * t.n * m.d * v.d + 2 * v.n * m.d * t.d,
                      d |-> m.d * t.d * v.d]]

\* line 93 falling back to the single-frame check only below three frames
_check_multi_frame_min3(frames) ==
  IF Len(frames) < 3 THEN _check_single_frame(frames[1])
  ELSE LET c10 == MultiFrameScores(frames).combined10
       IN IF c10.n > 5 * c10.d THEN LIVE
          ELSE IF c10.n < 3 * c10.d THEN SPOOF
          ELSE UNKNOWN

_check_multi_frame(frames) ==
  IF Len(frames) < LIVENESS_MIN_FRAMES THEN _check_single_frame(frames[1])
  ELSE LET c10 == MultiFrameScores(frames).combined10
       IN IF c10.n > 5 * c10.d THEN LIVE
          ELSE IF c10.n < 3 * c10.d THEN SPOOF
          ELSE UNKNOWN

check_liveness(frames) ==
  IF Len(frames) = 1 THEN _check_single_frame(frames[1])
  ELSE _check_multi_frame(frames)

\* ------------------------------------------------ simple_face_service.py
_create_embedding(image) == [num |-> image.hist, den2 |-> 1]

\* detect_faces: the faces found in the image (model loaded)
detect_faces(image) ==
  IF image.face
  THEN << [bbox |-> image.k, confidence |-> 85, embedding |-> _create_embedding(image)] >>
  ELSE << >>

\* lines 148-149 of assess_lighting_quality and assess_motion_blur on the face region
assess_lighting_quality(image) == image.lighting
assess_motion_blur(image) == image.blur

\* extract_embedding refusing a face region blurred beyond one half
extract_embedding_blur_gate(image) ==
  LET faces == detect_faces(image)
  IN IF faces = << >> \/ assess_motion_blur(image) > 50 THEN None
     ELSE LET embedding == normalize_embedding(faces[1].embedding)
          IN Some([embedding |-> embedding,
                   metadata |-> [bbox |-> faces[1].bbox,
                                 confidence |-> faces[1].confidence,
                                 lighting_score |-> assess_lighting_quality(image),
                                 blur_score |-> assess_motion_blur(image),
                                 embedding_norm |-> Norm(embedding)]])

\* extract_embedding: None, or the normalised embedding with its metadata
extract_embedding(image) ==
  LET faces == detect_faces(image)
  IN IF faces = << >> THEN None
     ELSE LET embedding == normalize_embedding(faces[1].embedding)
          IN Some([embedding |-> embedding,
                   metadata |-> [bbox |-> faces[1].bbox,
                                 confidence |-> faces[1].confidence,
                                 lighting_score |-> assess_lighting_quality(image),
                                 blur_score |-> assess_motion_blur(image),
                                 embedding_norm |-> Norm(embedding)]])

\* np.pad of lines 275-279 filling with ones
FitLength_pad_ones(v, n) == [ i \in 1 .. n |-> IF i <= Len(v) THEN v[i] ELSE 1 ]

\* the ref vector cut or zero-padded to n components
RECURSIVE FitLength(_, _)
FitLength(v, n) ==
  IF n = 0 THEN << >>
  ELSE IF v = << >> THEN <<0>> \o FitLength(v, n - 1)
  ELSE <<v[1]>> \o FitLength(Tail(v), n - 1)

\* lines 266-279: the stored vector of a record, read back and brought to the
\* probe's length
RefEmbedding(embedding_record, probe_embedding) ==
  LET raw == binary_to_embedding(embedding_record.embedding, "float32")
  IN IF Len(raw.num) # Len(probe_embedding.num)
     THEN [raw EXCEPT !.num = FitLength(raw.num, Len(probe_embedding.num))]
     ELSE raw

\* the comparison of line 285 taking ties as improvements
RECURSIVE ScanEmbeddings_last_wins(_, _, _, _)
ScanEmbeddings_last_wins(person, records, probe_embedding, best) ==
  IF records = << >> THEN best
  ELSE LET ref_embedding == RefEmbedding(records[1], probe_embedding)
           similarity == cosine_similarity(probe_embedding, ref_embedding)
           next == IF similarity >= best.best_similarity
                   THEN [best_match |-> Some(person),
                         best_similarity |-> similarity,
                         best_photo_id |-> Some(records[1].photo_id)]
                   ELSE best
       IN ScanEmbeddings_last_wins(person, Tail(records), probe_embedding, next)

\* inner loop of _search_database over one person's embedding records
RECURSIVE ScanEmbeddings(_, _, _, _)
ScanEmbeddings(person, records, probe_embedding, best) ==
  IF records = << >> THEN best
  ELSE LET ref_embedding == RefEmbedding(records[1], probe_embedding)
           similarity == cosine_similarity(probe_embedding, ref_embedding)
           next == IF similarity > best.best_similarity
                   THEN [best_match |-> Some(person),
                         best_similarity |-> similarity,
                         best_photo_id |-> Some(records[1].photo_id)]
                   ELSE best
       IN ScanEmbeddings(person, Tail(records), probe_embedding, next)

\* outer loop of _search_database over the queried persons
RECURSIVE ScanPersons(_, _, _)
ScanPersons(queried, probe_embedding, best) ==
  IF queried = << >> THEN best
  ELSE ScanPersons(Tail(queried), probe_embedding,
                   ScanEmbeddings(queried[1], queried[1].embeddings, probe_embedding, best))

\* the query of line 254 without its filter
ActivePersons_unfiltered(table) == table

\* db_session.query(Person).filter(Person.is_active == True).all()
ActivePersons(table) == SelectSeq(table, LAMBDA p : p.is_active)

_search_database(probe_embedding, table) ==
  LET queried == ActivePersons(table)
  IN IF queried = << >> THEN None
     ELSE LET best == ScanPersons(queried, probe_embedding,
                                  [best_match |-> None, best_similarity |-> 0 - SimScale,
                                   best_photo_id |-> None])
          IN IF best.best_match # None
             THEN Some([person |-> best.best_match[1],
                        best_similarity |-> best.best_similarity,
                        best_photo_id |-> best.best_photo_id[1]])
             ELSE None

_create_response(verdict, liveness, explain, probe_metadata, candidate_info, threshold_used) ==
  [status |-> "ok",
   verdict |-> verdict,
   id_candidate |-> IF candidate_info # None THEN Some(candidate_info[1].id) ELSE None,
   name_candidate |-> IF candidate_info # None THEN Some(candidate_info[1].name) ELSE None,
   similarity |-> IF candidate_info # None THEN Some(candidate_info[1].similarity) ELSE None,
   threshold_used |-> threshold_used,
   explain |-> explain,
   probe_embedding_norm |-> IF probe_metadata # None THEN probe_metadata[1].embedding_norm ELSE 0,
   matched_reference_photo_id |->
     IF candidate_info # None THEN Some(candidate_info[1].photo_id) ELSE None,
   liveness |-> liveness]

\* lines 222 and 225 with strict comparisons
VerdictFor_strict(best_similarity) ==
  IF best_similarity > THRESHOLD_HIGH_CONFIDENCE THEN MATCH
  ELSE IF best_similarity > THRESHOLD_MEDIUM_CONFIDENCE THEN POSSIBLE_MATCH
  ELSE NOT_FOUND

\* verify_face lines 222-229: the verdict for the best similarity
VerdictFor(best_similarity) ==
  IF best_similarity >= THRESHOLD_HIGH_CONFIDENCE THEN MATCH
  ELSE IF best_similarity >= THRESHOLD_MEDIUM_CONFIDENCE THEN POSSIBLE_MATCH
  ELSE NOT_FOUND

\* line 230 leaving the explanation of the last branch empty
ExplainFor_blank(verdict, name, best_similarity) ==
  IF verdict = MATCH THEN <<"this_is", name, best_similarity>>
  ELSE IF verdict = POSSIBLE_MATCH THEN <<"possibly", name, best_similarity>>
  ELSE << >>

\* verify_face lines 224, 227, 230: the explanation text, as template and arguments
ExplainFor(verdict, name, best_similarity) ==
  IF verdict = MATCH THEN <<"this_is", name, best_similarity>>
  ELSE IF verdict = POSSIBLE_MATCH THEN <<"possibly", name, best_similarity>>
  ELSE <<"not_found_best", best_similarity>>

\* lines 224-230 putting the matched photo into the text
ClassifyMatch_photo_in_explain(match_result, liveness_result, probe_metadata) ==
  LET person == match_result.person
      best_similarity == match_result.best_similarity
      verdict == VerdictFor(best_similarity)
      explain == Append(ExplainFor(verdict, person.name, best_similarity),
                        match_result.best_photo_id)
  IN _create_response(verdict, liveness_result, explain, Some(probe_metadata),
                      Some([id |-> person.id_person, name |-> person.name,
                            similarity |-> best_similarity,
                            photo_id |-> match_result.best_photo_id]),
                      Some(IF verdict = MATCH THEN THRESHOLD_HIGH_CONFIDENCE
                           ELSE THRESHOLD_MEDIUM_CONFIDENCE))

\* verify_face lines 220-246: the response for a search result
ClassifyMatch(match_result, liveness_result, probe_metadata) ==
  LET person == match_result.person
      best_similarity == match_result.best_similarity
      verdict == VerdictFor(best_similarity)
      explain == ExplainFor(verdict, person.name, best_similarity)
  IN _create_response(verdict, liveness_result, explain, Some(probe_metadata),
                      Some([id |-> person.id_person, name |-> person.name,
                            similarity |-> best_similarity,
                            photo_id |-> match_result.best_photo_id]),
                      Some(IF verdict = MATCH THEN THRESHOLD_HIGH_CONFIDENCE
                           ELSE THRESHOLD_MEDIUM_CONFIDENCE))

\* the query also filtering on Person.is_active == True
PersonByIdPerson_active_only(table, id_person) ==
  LET hits == SelectSeq(table, LAMBDA p : p.id_person = id_person /\ p.is_active)
  IN IF hits = << >> THEN None ELSE Some(hits[1])

\* db.query(Person).filter(Person.id_person == id_person).first()
PersonByIdPerson(table, id_person) ==
  LET hits == SelectSeq(table, LAMBDA p : p.id_person = id_person)
  IN IF hits = << >> THEN None ELSE Some(hits[1])

\* the query of lines 307-309 filtering on the name column
EnrollExisting_by_name(table, id_person) ==
  LET hits == SelectSeq(table, LAMBDA p : p.name = id_person)
  IN IF hits = << >> THEN None ELSE Some(hits[1])

\* enroll_person lines 307-309: the row that already carries this id_person
EnrollExisting(table, id_person) == PersonByIdPerson(table, id_person)

\* detect_faces without the guard of lines 54-55
ModelNotLoaded_unguarded(loaded) == FALSE

\* detect_faces lines 54-55: the detector refuses to run without its cascade
ModelNotLoaded(loaded) == ~loaded

\* line 184 testing for the wrong member of LivenessEnum
SpoofDetected_wrong_member(check, liveness_result) == check /\ liveness_result = LIVE

\* verify_face lines 176 and 184: the liveness check ran and found a spoof
SpoofDetected(check, liveness_result) == check /\ liveness_result = SPOOF

\* ------------------------------------------------------------------- state
VARIABLES
  model_loaded,   \* SimpleFaceRecognitionService.model_loaded
  persons,        \* table persons, in primary-key order, each row with its face_embeddings rows
  attempts,       \* table verification_attempts, in primary-key order
  ncalls,         \* requests started so far
  pc,             \* per request slot: where its handler stands
  req,            \* per request slot: the request's arguments
  loc,            \* per request slot: the handler's locals
  resp            \* per request slot: what the handler has returned or raised

vars == <<model_loaded, persons, attempts, ncalls, pc, req, loc, resp>>

NoReq == [op |-> "none"]
NoLoc == [liveness_result |-> UNKNOWN, extraction |-> None, match_result |-> None,
          embeddings |-> << >>, stages |-> << >>, logged |-> 0]
NoResp == [status |-> "none"]
Raised(exc, detail, http) == [status |-> "error", exc |-> exc, detail |-> detail, http |-> http]

\* the worker that takes the next request: the first idle one (0 when all are busy)
FreeSlot ==
  IF \E c \in Calls : pc[c] = "idle"
  THEN CHOOSE c \in Calls : pc[c] = "idle" /\ \A d \in Calls : pc[d] = "idle" => c <= d
  ELSE 0

Init ==
  /\ model_loaded \in BOOLEAN
  /\ persons = << >>
  /\ attempts = << >>
  /\ ncalls = 0
  /\ pc = [c \in Calls |-> "idle"]
  /\ req = [c \in Calls |-> NoReq]
  /\ loc = [c \in Calls |-> NoLoc]
  /\ resp = [c \in Calls |-> NoResp]

\* ------------------------------------------------------ verification calls
\* A handler is cut where it reads or writes the tables: what lies between two
\* such accesses touches only the handler's own locals and is one step.

\* POST /verify (routes.verify_face) or GET /test-verification arrives and
\* runs verify_face up to the database search: lines 172-205, with the guard
\* of detect_faces (lines 54-55)
VerifyStart(c, route, image, check, frames) ==
  /\ c = FreeSlot
  /\ route = "test_verification" => (image = TestImage /\ check)
  /\ ncalls < MaxCalls
  /\ ncalls' = ncalls + 1
  /\ req' = [req EXCEPT ![c] = [op |-> "verify", route |-> route, image |-> image,
                                check_liveness |-> check, frames |-> frames]]
  /\ LET liveness_result ==
           IF check
           THEN IF frames # << >> /\ Len(frames) > 1
                THEN check_liveness(frames)
                ELSE check_liveness(<<image>>)
           ELSE UNKNOWN
         ran == IF check THEN <<"liveness">> ELSE << >>
     IN IF SpoofDetected(check, liveness_result)
        THEN /\ resp' = [resp EXCEPT ![c] =
                           _create_response(SPOOF, liveness_result, <<"spoof_detected">>,
                                            None, None, None)]
             /\ loc' = [loc EXCEPT ![c] = [NoLoc EXCEPT !.liveness_result = liveness_result,
                                                        !.stages = ran]]
             /\ pc' = [pc EXCEPT ![c] = "returned"]
        ELSE IF ModelNotLoaded(model_loaded)
        THEN /\ resp' = [resp EXCEPT ![c] = Raised("RuntimeError", "model_not_loaded", 500)]
             /\ loc' = [loc EXCEPT ![c] = [NoLoc EXCEPT !.liveness_result = liveness_result,
                                                        !.stages = ran \o <<"extract">>]]
             /\ pc' = [pc EXCEPT ![c] = "failed"]
        ELSE LET extraction_result == extract_embedding(image)
             IN /\ loc' = [loc EXCEPT ![c] =
                             [NoLoc EXCEPT !.liveness_result = liveness_result,
                                           !.extraction = extraction_result,
                                           !.stages = ran \o <<"extract">>]]
                /\ IF extraction_result = None
                   THEN /\ resp' = [resp EXCEPT ![c] =
                                      _create_response(NO_FACE_DETECTED, liveness_result,
                                                       <<"no_face">>, None, None, None)]
                        /\ pc' = [pc EXCEPT ![c] = "returned"]
                   ELSE /\ resp' = [resp EXCEPT ![c] = NoResp]
                        /\ pc' = [pc EXCEPT ![c] = "search"]
  /\ UNCHANGED <<model_loaded, persons, attempts>>

\* routes.verify_face lines 177-187 and test_routes.test_verification lines
\* 121-125: verify_face is called without a frame list
VerifyBegin(c, route, image, check) == VerifyStart(c, route, image, check, << >>)

\* POST /verify-multi-frame (routes.verify_face_multi_frame lines 230-253): fewer
\* than three frames are refused, otherwise the first frame is the probe and
\* all frames go to the liveness check
VerifyMultiBegin(c, frames) ==
  IF Len(frames) < 3
  THEN /\ c = FreeSlot
       /\ ncalls < MaxCalls
       /\ ncalls' = ncalls + 1
       /\ req' = [req EXCEPT ![c] = [op |-> "verify", route |-> "verify_multi_frame",
                                     image |-> frames[1], check_liveness |-> TRUE,
                                     frames |-> frames]]
       /\ resp' = [resp EXCEPT ![c] = Raised("HTTPException", "min_frames", 400)]
       /\ loc' = [loc EXCEPT ![c] = NoLoc]
       /\ pc' = [pc EXCEPT ![c] = "failed"]
       /\ UNCHANGED <<model_loaded, persons, attempts>>
  ELSE VerifyStart(c, "verify_multi_frame", frames[1], TRUE, frames)

\* lines 208-232 with the classification ahead of the search
SearchStages_verdict_first(match_result) == <<"verdict", "search">>

\* the stages verify_face runs from line 208 on: the search, and the
\* classification of lines 220-230 when the search returned a candidate
SearchStages(match_result) ==
  IF match_result = None THEN <<"search">> ELSE <<"search", "verdict">>

\* verify_face lines 207-246: the search and the verdict on its result
VerifySearch(c) ==
  /\ pc[c] = "search"
  /\ LET match_result == _search_database(loc[c].extraction[1].embedding, persons)
     IN IF match_result = None
        THEN /\ resp' = [resp EXCEPT ![c] =
                           _create_response(NOT_FOUND, loc[c].liveness_result,
                                            <<"not_in_database">>,
                                            Some(loc[c].extraction[1].metadata), None, None)]
             /\ loc' = [loc EXCEPT ![c].match_result = match_result,
                                   ![c].stages = @ \o SearchStages(match_result)]
        ELSE /\ resp' = [resp EXCEPT ![c] =
                           ClassifyMatch(match_result[1], loc[c].liveness_result,
                                         loc[c].extraction[1].metadata)]
             /\ loc' = [loc EXCEPT ![c].match_result = match_result,
                                   ![c].stages = @ \o SearchStages(match_result)]
  /\ pc' = [pc EXCEPT ![c] = "returned"]
  /\ UNCHANGED <<model_loaded, persons, attempts, ncalls, req>>

\* routes.verify_face lines 189-209, routes.verify_face_multi_frame lines
\* 255-276; test_routes.test_verification line 127
VerifyLog(c) ==
  /\ pc[c] = "returned"
  /\ IF req[c].route \in {"verify", "verify_multi_frame"} /\ LOG_ATTEMPTS
     THEN LET result == resp[c]
              attempt ==
                [probe_id |-> req[c].image.k,
                 person_id |-> IF result.id_candidate # None
                               THEN Some(PersonByIdPerson(persons, result.id_candidate[1])[1].id)
                               ELSE None,
                 verdict |-> result.verdict,
                 similarity |-> result.similarity,
                 liveness_result |-> result.liveness]
          IN /\ attempts' = Append(attempts, attempt)
             /\ loc' = [loc EXCEPT ![c].logged = @ + 1]
     ELSE UNCHANGED <<attempts, loc>>
  /\ pc' = [pc EXCEPT ![c] = "done"]
  /\ UNCHANGED <<model_loaded, persons, ncalls, req, resp>>

\* the response (or the HTTP error) has gone out; the slot serves the next request
Finish(c) ==
  /\ pc[c] \in {"done", "failed"}
  /\ pc' = [pc EXCEPT ![c] = "idle"]
  /\ req' = [req EXCEPT ![c] = NoReq]
  /\ loc' = [loc EXCEPT ![c] = NoLoc]
  /\ resp' = [resp EXCEPT ![c] = NoResp]
  /\ UNCHANGED <<model_loaded, persons, attempts, ncalls>>

\* -------------------------------------------------------- enrollment calls
\* the loop of lines 314-327 without the continue of line 320
RECURSIVE ExtractAll_no_skip(_, _, _)
ExtractAll_no_skip(images, idx, id_person) ==
  IF images = << >> THEN << >>
  ELSE LET embedding == normalize_embedding(_create_embedding(images[1]))
       IN << [embedding |-> embedding,
              metadata |-> [bbox |-> images[1].k, confidence |-> 85,
                            lighting_score |-> assess_lighting_quality(images[1]),
                            blur_score |-> assess_motion_blur(images[1]),
                            embedding_norm |-> Norm(embedding)],
              photo_id |-> <<id_person, "photo", idx>>] >>
          \o ExtractAll_no_skip(Tail(images), idx + 1, id_person)

\* the loop of enroll_person lines 314-327 over images[idx ..], idx counted from 0
RECURSIVE ExtractAll(_, _, _)
ExtractAll(images, idx, id_person) ==
  IF images = << >> THEN << >>
  ELSE LET extraction_result == extract_embedding(images[1])
           rest == ExtractAll(Tail(images), idx + 1, id_person)
       IN IF extraction_result = None THEN rest
          ELSE << [embedding |-> extraction_result[1].embedding,
                   metadata |-> extraction_result[1].metadata,
                   photo_id |-> <<id_person, "photo", idx>>] >> \o rest

\* POST /enroll (routes.enroll_person) arrives and runs enroll_person up to
\* the insert: lines 304-330
EnrollBegin(c, id_person, images) ==
  /\ c = FreeSlot
  /\ ncalls < MaxCalls
  /\ ncalls' = ncalls + 1
  /\ req' = [req EXCEPT ![c] = [op |-> "enroll", id_person |-> id_person,
                                name |-> NameOf[id_person], images |-> images]]
  /\ LET existing == EnrollExisting(persons, id_person)
         embeddings == ExtractAll(images, 0, id_person)
         raise(e) == /\ resp' = [resp EXCEPT ![c] = e]
                     /\ pc' = [pc EXCEPT ![c] = "failed"]
                     /\ loc' = [loc EXCEPT ![c] = NoLoc]
     IN IF images = << >> THEN raise(Raised("ValueError", "no_images", 400))
        ELSE IF existing # None THEN raise(Raised("ValueError", "already_enrolled", 400))
        ELSE IF ModelNotLoaded(model_loaded)
        THEN raise(Raised("RuntimeError", "model_not_loaded", 500))
        ELSE IF embeddings = << >> THEN raise(Raised("ValueError", "no_faces", 400))
        ELSE /\ loc' = [loc EXCEPT ![c] = [NoLoc EXCEPT !.embeddings = embeddings]]
             /\ pc' = [pc EXCEPT ![c] = "enroll_commit"]
             /\ resp' = [resp EXCEPT ![c] = NoResp]
  /\ UNCHANGED <<model_loaded, persons, attempts>>

\* the photo_id column of face_embeddings over the whole table
RECURSIVE StoredPhotoIds(_)
StoredPhotoIds(table) ==
  IF table = << >> THEN {}
  ELSE { table[1].embeddings[i].photo_id : i \in 1 .. Len(table[1].embeddings) }
         \cup StoredPhotoIds(Tail(table))

\* the loop of lines 342-350 stopping one record early
EmbeddingRows_short(embeddings) ==
  [ i \in 1 .. (Len(embeddings) - 1) |->
      [embedding |-> embedding_to_binary(embeddings[i].embedding),
       embedding_norm |-> Norm(embeddings[i].embedding),
       photo_id |-> embeddings[i].photo_id,
       quality_metrics |-> embeddings[i].metadata] ]

\* the rows enroll_person adds for its embeddings (lines 342-350)
EmbeddingRows(embeddings) ==
  [ i \in 1 .. Len(embeddings) |->
      [embedding |-> embedding_to_binary(embeddings[i].embedding),
       embedding_norm |-> Norm(embeddings[i].embedding),
       photo_id |-> embeddings[i].photo_id,
       quality_metrics |-> embeddings[i].metadata] ]

\* tables without their unique indexes
UniqueViolation_none(table, id_person, embeddings) == FALSE

\* the inserts of lines 339-352 break a unique index: persons.id_person
\* (models.py line 20) or face_embeddings.photo_id (models.py line 43)
UniqueViolation(table, id_person, embeddings) ==
  \/ PersonByIdPerson(table, id_person) # None
  \/ \E i \in 1 .. Len(embeddings) : embeddings[i].photo_id \in StoredPhotoIds(table)
  \/ \E i, j \in 1 .. Len(embeddings) :
       i < j /\ embeddings[i].photo_id = embeddings[j].photo_id

\* the session keeping what it had inserted before the failing insert
SessionCommit_autocommit(table, person, rows, failed) ==
  IF failed = 0 THEN Append(table, [person EXCEPT !.embeddings = rows])
  ELSE Append(table, [person EXCEPT !.embeddings = SubSeq(rows, 1, failed - 1)])

\* the transaction of lines 339-352 on a session made with autocommit off:
\* the flushed Person row and the added FaceEmbedding rows become visible
\* together at commit; when the insert of row number failed (0: none) raises,
\* get_db closes the session and the whole transaction is rolled back
SessionCommit(table, person, rows, failed) ==
  IF failed = 0 THEN Append(table, [person EXCEPT !.embeddings = rows])
  ELSE table

\* enroll_person lines 332-363; the unique columns are those of models.py;
\* fail_at is the embedding insert on which the store raises (0: none does)
EnrollCommit(c, fail_at) ==
  /\ pc[c] = "enroll_commit"
  /\ fail_at \in 0 .. Len(loc[c].embeddings)
  /\ LET embeddings == loc[c].embeddings
         person == [id |-> Len(persons) + 1,
                    id_person |-> req[c].id_person,
                    name |-> req[c].name,
                    photo_count |-> Len(embeddings),
                    is_active |-> TRUE,
                    embeddings |-> << >>]
         clash == UniqueViolation(persons, req[c].id_person, embeddings)
     IN IF clash
        THEN /\ resp' = [resp EXCEPT ![c] = Raised("IntegrityError", "unique", 500)]
             /\ pc' = [pc EXCEPT ![c] = "failed"]
             /\ persons' = persons
        ELSE /\ persons' = SessionCommit(persons, person, EmbeddingRows(embeddings), fail_at)
             /\ IF fail_at # 0
                THEN /\ resp' = [resp EXCEPT ![c] = Raised("OperationalError", "persist", 500)]
                     /\ pc' = [pc EXCEPT ![c] = "failed"]
                ELSE /\ resp' = [resp EXCEPT ![c] =
                                   [status |-> "ok", success |-> TRUE,
                                    id_person |-> req[c].id_person, name |-> req[c].name,
                                    photo_count |-> Len(embeddings)]]
                     /\ pc' = [pc EXCEPT ![c] = "done"]
  /\ UNCHANGED <<model_loaded, attempts, ncalls, req, loc>>

\* ------------------------------------------------------------------ removal
\* a hard delete of the row's face_embeddings along with the flag
Deactivate_purge(person) == [person EXCEPT !.is_active = FALSE, !.embeddings = << >>]

\* routes.delete_person line 375: the soft delete of one Person row
Deactivate(person) == [person EXCEPT !.is_active = FALSE]

\* DELETE /persons/{id_person} (routes.delete_person), one transaction
DeletePerson(id_person) ==
  /\ PersonByIdPerson(persons, id_person) # None
  /\ persons' = [ i \in 1 .. Len(persons) |->
                    IF persons[i].id_person = id_person
                    THEN Deactivate(persons[i])
                    ELSE persons[i] ]
  /\ UNCHANGED <<model_loaded, attempts, ncalls, pc, req, loc, resp>>

\* ------------------------------------------------------------ specification
Step(c) ==
  \/ VerifySearch(c)
  \/ VerifyLog(c)
  \/ \E fail_at \in 0 .. MaxPhotos : EnrollCommit(c, fail_at)
  \/ Finish(c)

Next ==
  \/ \E c \in Calls, route \in VerifyRoutes, image \in Images, check \in BOOLEAN :
       VerifyBegin(c, route, image, check)
  \/ \E c \in Calls, id_person \in PersonIds, images \in SeqsUpTo(EnrollImages, MaxPhotos) :
       EnrollBegin(c, id_person, images)
  \/ \E id_person \in PersonIds : DeletePerson(id_person)
  \/ \E c \in Calls : Step(c)

Spec == Init /\ [][Next]_vars

\* ------------------------------------------- verification on a stored base
\* The tables outlive the process (database.py line 12: a file or a server), so
\* a service can start on rows written earlier, by this or by another version of
\* the code.  StoreSpec starts verification on such a base: two persons, the
\* first with one stored vector, the second with up to MaxStored, the vectors
\* being of the probe's length or not, with components of either sign.
StoredVectors ==
  { <<1, 0, 0, 0>>, <<0, 0, 0, 1>>, <<0 - 1, 0, 0, 0>>, <<1, 0, 0, 0, 7>>, <<1>> }

\* a face_embeddings row holding the unit vector along v
StoredRow(id_person, idx, v) ==
  [embedding |-> [dtype |-> "float32", num |-> v, den2 |-> Dot(v, v)],
   embedding_norm |-> SimScale,
   photo_id |-> <<id_person, "photo", idx>>,
   quality_metrics |-> [bbox |-> 0, confidence |-> 85, lighting_score |-> 80,
                        blur_score |-> 10, embedding_norm |-> SimScale]]

\* a persons row with its face_embeddings rows
StoredPerson(id, id_person, vs) ==
  [id |-> id, id_person |-> id_person, name |-> NameOf[id_person],
   photo_count |-> Len(vs), is_active |-> TRUE,
   embeddings |-> [ i \in 1 .. Len(vs) |-> StoredRow(id_person, i - 1, vs[i]) ]]

Stores ==
  { << StoredPerson(1, "alice", <<va>>), StoredPerson(2, "bob", vb) >> :
      va \in StoredVectors, vb \in SeqsUpTo(StoredVectors, MaxStored) \ { << >> } }

\* the probes sent to a stored base
StoreProbes == { i \in Images : i.k \in {1, 4} }

StoreInit ==
  /\ model_loaded = TRUE
  /\ persons \in Stores
  /\ attempts = << >>
  /\ ncalls = 0
  /\ pc = [c \in Calls |-> "idle"]
  /\ req = [c \in Calls |-> NoReq]
  /\ loc = [c \in Calls |-> NoLoc]
  /\ resp = [c \in Calls |-> NoResp]

StoreNext ==
  \/ \E c \in Calls, image \in StoreProbes : VerifyBegin(c, "verify", image, TRUE)
  \/ \E id_person \in PersonIds : DeletePerson(id_person)
  \/ \E c \in Calls : VerifySearch(c)
  \/ \E c \in Calls : VerifyLog(c)
  \/ \E c \in Calls : Finish(c)

StoreSpec == StoreInit /\ [][StoreNext]_vars

\* ------------------------------------------------ multi-frame verification
\* A burst is a list of frames of one scene: the frame it starts from, with a
\* one-pixel grayscale that moves by step between consecutive frames.
Frame(image, g) ==
  [k |-> image.k, face |-> image.face, hist |-> image.hist,
   texture |-> image.texture, frequency |-> image.frequency,
   lighting |-> image.lighting, blur |-> image.blur, gray |-> <<g>>]
Burst(image, t, step) ==
  [ i \in 1 .. t |-> Frame(image, IF i % 2 = 0 THEN 100 + step ELSE 100) ]
BurstImages ==
  { CHOOSE i \in Images : i.k = 1,
    [k |-> 6, face |-> TRUE, hist |-> <<1, 0, 0, 0>>, texture |-> 100, frequency |-> 40,
      lighting |-> 80, blur |-> 10],
    [k |-> 7, face |-> FALSE, hist |-> <<0, 0, 0, 0>>, texture |-> 0, frequency |-> 0,
      lighting |-> 80, blur |-> 10] }
BurstSteps == {0, 2, 10}
\* six frames of two pixels without texture: average motion 0.18, hence motion
\* score 0.6, and temporal variance score 1
EdgeBurst ==
  LET image == CHOOSE i \in BurstImages : i.k = 7
      a == <<0, 46, 0, 46, 0, 46>>
      b == <<0, 46, 0, 46, 0, 45>>
  IN [ i \in 1 .. 6 |-> [Frame(image, 0) EXCEPT !.gray = <<a[i], b[i]>>] ]
\* six frames of image 1 with the given pixels per frame
SixFrames(pixels) ==
  LET image == CHOOSE i \in BurstImages : i.k = 1
  IN [ i \in 1 .. 6 |-> [Frame(image, 0) EXCEPT !.gray = pixels[i]] ]
\* average motion exactly 0.01, exactly 0.10, and 60 / 255
MotionBursts ==
  { SixFrames(<< <<0, 0, 0, 0>>, <<10, 0, 0, 0>>, <<0, 0, 0, 0>>,
                 <<10, 0, 0, 0>>, <<0, 0, 0, 0>>, <<10, 1, 0, 0>> >>),
    SixFrames(<< <<0, 0>>, <<26, 25>>, <<0, 0>>, <<26, 25>>, <<0, 0>>, <<26, 25>> >>),
    SixFrames(<< <<0>>, <<60>>, <<0>>, <<60>>, <<0>>, <<60>> >>) }
Bursts ==
  { Burst(image, t, step) : image \in BurstImages, t \in 2 .. MaxFrames, step \in BurstSteps }
    \cup { EdgeBurst } \cup MotionBursts

BurstNext ==
  \/ \E c \in Calls, frames \in Bursts : VerifyMultiBegin(c, frames)
  \/ \E c \in Calls : VerifySearch(c)
  \/ \E c \in Calls : VerifyLog(c)
  \/ \E c \in Calls : Finish(c)

BurstSpec == Init /\ [][BurstNext]_vars

\* ------------------------------------------------- calls of the service
\* verify_face called as a method (lines 162-168): the probe image, the flag and
\* the optional frame list are independent arguments, and nothing is logged.
VerifyCall(c, image, check, frames) == VerifyStart(c, "service", image, check, frames)

ServiceImages == { i \in Images : i.k \in {1, 2} }
ServiceFrames ==
  { << >> } \cup { Burst(image, t, 0) : image \in ServiceImages, t \in 1 .. MaxFrames }
\* the probes: those images, and two whose single-frame score is exactly
\* LIVENESS_TEXTURE_THRESHOLD and exactly 0.6 times it
ServiceProbes ==
  ServiceImages \cup
    { [k |-> 8, face |-> TRUE, hist |-> <<1, 0, 0, 0>>, texture |-> 40, frequency |-> 20,
      lighting |-> 80, blur |-> 10],
      [k |-> 9, face |-> TRUE, hist |-> <<1, 0, 0, 0>>, texture |-> 6, frequency |-> 30,
      lighting |-> 80, blur |-> 10] }

ServiceNext ==
  \/ \E c \in Calls, image \in ServiceProbes, frames \in ServiceFrames :
       VerifyCall(c, image, TRUE, frames)
  \/ \E c \in Calls : VerifySearch(c)
  \/ \E c \in Calls : VerifyLog(c)
  \/ \E c \in Calls : Finish(c)

ServiceSpec == Init /\ [][ServiceNext]_vars

\* ------------------------------------- calls on probes of differing quality
\* The same scenes photographed well and badly: images that differ in nothing
\* but the lighting and blur scores of the face region, sent to POST /verify
\* and POST /enroll on an empty base or on one that holds a single person.
PoorImage(image) == [image EXCEPT !.lighting = 20, !.blur = 90]
QualityProbes ==
  { i \in Images : i.k \in {1, 4} } \cup { PoorImage(i) : i \in { j \in Images : j.k = 1 } }
QualityStores == { << >>, << StoredPerson(1, "alice", << <<1, 0, 0, 0>> >>) >> }

QualityInit ==
  /\ model_loaded = TRUE
  /\ persons \in QualityStores
  /\ attempts = << >>
  /\ ncalls = 0
  /\ pc = [c \in Calls |-> "idle"]
  /\ req = [c \in Calls |-> NoReq]
  /\ loc = [c \in Calls |-> NoLoc]
  /\ resp = [c \in Calls |-> NoResp]

QualityNext ==
  \/ \E c \in Calls, image \in QualityProbes, check \in BOOLEAN :
       VerifyBegin(c, "verify", image, check)
  \/ \E c \in Calls, id_person \in PersonIds, images \in SeqsUpTo(QualityProbes, MaxPhotos) :
       EnrollBegin(c, id_person, images)
  \/ \E c \in Calls : Step(c)

QualitySpec == QualityInit /\ [][QualityNext]_vars

\* --------------------------------- one face under differing liveness checks
\* The same face sent to POST /verify with the liveness check on or off and to
\* POST /verify-multi-frame in bursts that the check finds live, doubtful or
\* spoofed, on an empty base or on one that holds a single person.
GateImages == { i \in Images : i.k \in {1, 4} }
GateSteps == {0, 1, 2}
GateBursts ==
  { Burst(image, t, step) :
      image \in { i \in Images : i.k = 1 }, t \in 2 .. MaxFrames, step \in GateSteps }

GateNext ==
  \/ \E c \in Calls, image \in GateImages, check \in BOOLEAN :
       VerifyBegin(c, "verify", image, check)
  \/ \E c \in Calls, frames \in GateBursts : VerifyMultiBegin(c, frames)
  \/ \E c \in Calls : VerifySearch(c)
  \/ \E c \in Calls : VerifyLog(c)
  \/ \E c \in Calls : Finish(c)

GateSpec == QualityInit /\ [][GateNext]_vars

\* ------------------------------------------------------------------ claims
IsVerify(c) == req[c].op = "verify"
IsEnroll(c) == req[c].op = "enroll"
\* verify_face has returned a response in slot c
Answered(c) == IsVerify(c) /\ pc[c] \in {"returned", "done"}
\* no row of persons has is_active set
NoActivePerson == \A i \in 1 .. Len(persons) : ~persons[i].is_active

\* C1: a verify call with check_liveness whose liveness check returned spoof
\* ends with verdict SPOOF, no candidate and no similarity, and ran neither
\* face detection / extraction nor the database search.
C1_SpoofShortCircuit ==
  \A c \in Calls :
    (IsVerify(c) /\ req[c].check_liveness /\ loc[c].liveness_result = SPOOF)
      => /\ pc[c] \in {"returned", "done"}
         /\ resp[c].status = "ok"
         /\ resp[c].verdict = SPOOF
         /\ resp[c].id_candidate = None
         /\ resp[c].similarity = None
         /\ loc[c].stages = <<"liveness">>
         /\ loc[c].extraction = None
         /\ loc[c].match_result = None

\* a spoofed probe that shows a face with similarity 0.40 to an enrolled active person
C1_Witness ==
  \E c \in Calls :
    /\ IsVerify(c) /\ pc[c] = "done" /\ req[c].check_liveness
    /\ loc[c].liveness_result = SPOOF
    /\ req[c].image.face
    /\ model_loaded
    /\ ~NoActivePerson
    /\ cosine_similarity(_create_embedding(req[c].image),
                         binary_to_embedding(persons[1].embeddings[1].embedding, "float32")) >= 40

\* C2 as claimed: every verify call that has ended returned one verdict of the five
\* and one explanation, whatever the detector state.
C2_AlwaysAVerdict ==
  \A c \in Calls :
    (IsVerify(c) /\ pc[c] \in {"done", "failed"})
      => /\ resp[c].status = "ok"
         /\ resp[c].verdict \in VerdictEnum
         /\ resp[c].explain # << >>

C2_Outcome(c) ==
  IF model_loaded \/ SpoofDetected(req[c].check_liveness, loc[c].liveness_result)
  THEN /\ pc[c] # "failed"
       /\ resp[c].status = "ok"
       /\ resp[c].verdict \in VerdictEnum
       /\ resp[c].explain # << >>
       /\ pc[c] \in {"returned", "done"}
  ELSE /\ pc[c] = "failed"
       /\ resp[c].status = "error"
       /\ resp[c].exc = "RuntimeError"

\* how far a handler has come
StageRank(p) ==
  CASE p = "idle" -> 0
    [] p \in {"search", "enroll_commit"} -> 1
    [] p = "returned" -> 2
    [] p \in {"done", "failed"} -> 3

\* C2 amended: every verify call ends, each of its steps moving it strictly forward
\* through begin, search, returned, done or failed; it returns exactly one verdict of
\* the five with one explanation when the detector is loaded or the liveness check
\* found a spoof, and otherwise raises RuntimeError without a verdict.
C2_VerdictOrRaise ==
  /\ [](\A c \in Calls :
          (IsVerify(c) /\ pc[c] \in {"returned", "done", "failed"}) => C2_Outcome(c))
  /\ [][ \A c \in Calls :
           /\ (pc[c] = "idle" /\ req'[c].op = "verify")
                => pc'[c] \in {"search", "returned", "failed"}
           /\ (IsVerify(c) /\ pc'[c] # pc[c])
                => \/ StageRank(pc'[c]) > StageRank(pc[c])
                   \/ pc[c] \in {"done", "failed"} /\ pc'[c] = "idle"
           /\ (IsVerify(c) /\ pc[c] \in {"returned", "done"} /\ pc'[c] # "idle")
                => resp'[c] = resp[c] ]_vars

\* the detector failed to load and a spoofed probe still got its verdict
C2_Witness ==
  \E c \in Calls :
    /\ IsVerify(c) /\ pc[c] = "done" /\ ~model_loaded
    /\ resp[c].status = "ok" /\ resp[c].verdict = SPOOF

\* C3: for a search result with best similarity s the verdict is MATCH iff s >= 0.40,
\* POSSIBLE_MATCH iff 0.30 <= s < 0.40, NOT_FOUND iff s < 0.30, and exactly one applies.
C3_Thresholds ==
  \A c \in Calls :
    (Answered(c) /\ loc[c].match_result # None)
      => LET s == loc[c].match_result[1].best_similarity
             v == resp[c].verdict
         IN /\ s \in 0 .. SimScale
            /\ (v = MATCH) <=> (s >= 40)
            /\ (v = POSSIBLE_MATCH) <=> (s >= 30 /\ s < 40)
            /\ (v = NOT_FOUND) <=> (s < 30)
            /\ Cardinality({ w \in {MATCH, POSSIBLE_MATCH, NOT_FOUND} : w = v }) = 1
            /\ resp[c].similarity = Some(s)

\* a best similarity of exactly 0.40 was classified
C3_Witness ==
  \E c \in Calls :
    /\ Answered(c) /\ loc[c].match_result # None
    /\ loc[c].match_result[1].best_similarity = 40
    /\ resp[c].verdict = MATCH

\* the step in which verify_face produces its response in slot c
Answers(c) == resp[c].status = "none" /\ resp'[c].status # "none" /\ req'[c].op = "verify"

\* C4 as claimed: with no active person enrolled, every verify call whose liveness
\* check does not return spoof yields NOT_FOUND with no matched person.
C4_EmptyAlwaysNotFound ==
  [][ \A c \in Calls :
        (Answers(c) /\ NoActivePerson
           /\ ~SpoofDetected(req'[c].check_liveness, loc'[c].liveness_result))
          => /\ resp'[c].status = "ok"
             /\ resp'[c].verdict = NOT_FOUND
             /\ resp'[c].id_candidate = None ]_vars

\* C4 amended: with no active person enrolled when the database is searched, every
\* verify call that reaches the search (no spoof found, detector loaded, a face
\* detected in the probe) yields NOT_FOUND with no matched person and no similarity,
\* whatever the liveness result.
C4_EmptySearchNotFound ==
  [][ \A c \in Calls :
        (pc[c] = "search" /\ pc'[c] # "search" /\ NoActivePerson)
          => /\ resp'[c].status = "ok"
             /\ resp'[c].verdict = NOT_FOUND
             /\ resp'[c].id_candidate = None
             /\ resp'[c].similarity = None
             /\ resp'[c].liveness = loc[c].liveness_result ]_vars

\* a live probe searched against a store whose only person is deactivated
C4_Witness ==
  \E c \in Calls :
    /\ Answered(c) /\ "search" \in { loc[c].stages[i] : i \in 1 .. Len(loc[c].stages) }
    /\ loc[c].match_result = None
    /\ resp[c].verdict = NOT_FOUND
    /\ req[c].check_liveness /\ loc[c].liveness_result = LIVE
    /\ persons # << >> /\ NoActivePerson

\* C5: a verification that ends with NOT_FOUND names no person, in the response
\* and in the VerificationAttempt row written for it.
C5_NotFoundHasNoPerson ==
  /\ \A c \in Calls : (Answered(c) /\ resp[c].verdict = NOT_FOUND) => resp[c].id_candidate = None
  /\ \A i \in 1 .. Len(attempts) :
       attempts[i].verdict = NOT_FOUND => attempts[i].person_id = None

\* the step in which slot c takes an enroll request
BeginsEnroll(c) == pc[c] = "idle" /\ req'[c].op = "enroll"
\* the row of persons with this id_person is there and active
ActiveId(id_person) ==
  \E i \in 1 .. Len(persons) : persons[i].id_person = id_person /\ persons[i].is_active
\* positions of the images in which the cascade finds a face
FacePositions(images) == { i \in 1 .. Len(images) : images[i].face }

\* C6: enrolling an id_person that is already enrolled and active fails with the
\* duplicate error (ValueError; with its duplicate message whenever at least one
\* image was supplied) and leaves persons, embeddings and attempts as they were.
C6_DuplicateRejected ==
  [][ \A c \in Calls :
        (BeginsEnroll(c) /\ ActiveId(req'[c].id_person))
          => /\ pc'[c] = "failed"
             /\ resp'[c].status = "error"
             /\ resp'[c].exc = "ValueError"
             /\ req'[c].images # << >> => resp'[c].detail = "already_enrolled"
             /\ persons' = persons
             /\ attempts' = attempts ]_vars

\* a second enrollment of an active id, with a usable photo, has been rejected
C6_Witness ==
  \E c \in Calls :
    /\ IsEnroll(c) /\ pc[c] = "failed"
    /\ resp[c].detail = "already_enrolled"
    /\ ActiveId(req[c].id_person)
    /\ FacePositions(req[c].images) # {}
    /\ Len(persons) = 1

\* C7: an enroll call none of whose images shows a face fails with an error and
\* creates no Person row and no FaceEmbedding row.
C7_NoFaceNoEnrollment ==
  [][ \A c \in Calls :
        (BeginsEnroll(c) /\ FacePositions(req'[c].images) = {})
          => /\ pc'[c] = "failed"
             /\ resp'[c].status = "error"
             /\ persons' = persons ]_vars

\* two faceless images for a new id with the detector loaded: rejected, store empty
C7_Witness ==
  \E c \in Calls :
    /\ IsEnroll(c) /\ pc[c] = "failed"
    /\ resp[c].detail = "no_faces"
    /\ Len(req[c].images) = 2
    /\ persons = << >>

\* the k-th smallest member of a set of numbers
RECURSIVE KthOf(_, _)
KthOf(S, k) ==
  LET m == CHOOSE x \in S : \A y \in S : x <= y
  IN IF k = 1 THEN m ELSE KthOf(S \ {m}, k - 1)

\* the row enrolled by the finished call in slot c matches its images
EnrolledAsSupplied(c) ==
  LET faces == FacePositions(req[c].images)
      row == CHOOSE p \in { persons[i] : i \in 1 .. Len(persons) } :
               p.id_person = req[c].id_person
  IN /\ \E i \in 1 .. Len(persons) : persons[i].id_person = req[c].id_person
     /\ resp[c].status = "ok" /\ resp[c].success
     /\ resp[c].photo_count = Cardinality(faces)
     /\ row.photo_count = Cardinality(faces)
     /\ Len(row.embeddings) = Cardinality(faces)
     /\ \A j \in 1 .. Len(row.embeddings) :
          LET i == KthOf(faces, j)
          IN /\ row.embeddings[j].photo_id = <<req[c].id_person, "photo", i - 1>>
             /\ row.embeddings[j].embedding.num = req[c].images[i].hist

\* C8: an enroll call (new id, detector loaded) with a face in at least one image
\* succeeds, unless the store itself raises on an insert, even when other images
\* show none: one embedding is stored per image with a face, in order, and
\* photo_count is the number of those images.
C8_FacelessImagesSkipped ==
  /\ [](\A c \in Calls : (IsEnroll(c) /\ pc[c] = "done") => EnrolledAsSupplied(c))
  /\ [][ \A c \in Calls :
           /\ (BeginsEnroll(c) /\ model_loaded
                 /\ FacePositions(req'[c].images) # {}
                 /\ \A i \in 1 .. Len(persons) : persons[i].id_person # req'[c].id_person)
                => pc'[c] = "enroll_commit"
           /\ (pc[c] = "enroll_commit" /\ pc'[c] # pc[c]
                 /\ \A i \in 1 .. Len(persons) : persons[i].id_person # req[c].id_person)
                => \/ pc'[c] = "done"
                   \/ resp'[c].status = "error" /\ resp'[c].exc = "OperationalError" ]_vars

\* an enrollment whose first image shows no face and whose second does
C8_Witness ==
  \E c \in Calls :
    /\ IsEnroll(c) /\ pc[c] = "done"
    /\ Len(req[c].images) = 2
    /\ FacePositions(req[c].images) = {2}
    /\ resp[c].photo_count = 1

\* C9: removal is a soft delete: no step removes a Person row or changes its
\* embeddings, a deactivated row stays deactivated, and no database search made
\* after the deactivation returns that person as the candidate.
C9_SoftDelete ==
  [][ /\ Len(persons') >= Len(persons)
      /\ \A i \in 1 .. Len(persons) :
           /\ persons'[i].id_person = persons[i].id_person
           /\ persons'[i].embeddings = persons[i].embeddings
           /\ persons'[i].photo_count = persons[i].photo_count
           /\ ~persons[i].is_active => ~persons'[i].is_active
      /\ \A c \in Calls :
           (pc[c] = "search" /\ pc'[c] # pc[c] /\ resp'[c].id_candidate # None)
             => ActiveId(resp'[c].id_candidate[1]) ]_vars

\* a deactivated person still stored with the embedding of the very probe that a
\* finished verify call searched for and did not find
C9_Witness ==
  \E c \in Calls :
    /\ IsVerify(c) /\ pc[c] = "done"
    /\ loc[c].extraction # None
    /\ resp[c].verdict = NOT_FOUND /\ resp[c].id_candidate = None
    /\ Len(persons) = 1 /\ ~persons[1].is_active
    /\ Len(persons[1].embeddings) >= 1
    /\ persons[1].embeddings[1].embedding.num = req[c].image.hist

\* C10: every verification call that reaches a verdict appends exactly one
\* VerificationAttempt row, and no step changes or removes a row already there.
C10_OneAttemptPerVerdict ==
  /\ [](\A c \in Calls : (IsVerify(c) /\ pc[c] = "done") => loc[c].logged = 1)
  /\ [][ /\ Len(attempts') >= Len(attempts)
         /\ \A i \in 1 .. Len(attempts) : attempts'[i] = attempts[i] ]_vars

\* the stages of verify_face in the order of its text
StageOrder == <<"liveness", "extract", "search", "verdict">>
IsPrefix(s, t) == Len(s) <= Len(t) /\ s = SubSeq(t, 1, Len(s))

\* C11: the stages a verify call has run are an initial part of liveness check,
\* feature extraction, database search, verdict classification (without the
\* liveness check when check_liveness is off), so each ran at most once and none
\* before an earlier one; a step only adds stages at the end, and none once the
\* call has its verdict.
C11_StagesInOrder ==
  /\ [](\A c \in Calls :
          IsVerify(c) => IsPrefix(loc[c].stages,
                                  IF req[c].check_liveness THEN StageOrder ELSE Tail(StageOrder)))
  /\ [][ \A c \in Calls :
           (IsVerify(c) /\ req'[c].op = "verify")
             => /\ IsPrefix(loc[c].stages, loc'[c].stages)
                /\ pc[c] \in {"returned", "done", "failed"} => loc'[c].stages = loc[c].stages ]_vars

\* a call with check_liveness that ran all four stages and has answered
C11_Witness ==
  \E c \in Calls :
    /\ IsVerify(c) /\ pc[c] = "done" /\ req[c].check_liveness
    /\ loc[c].stages = StageOrder
    /\ resp[c].verdict \in {MATCH, POSSIBLE_MATCH, NOT_FOUND}

\* the step in which the store raises on an embedding insert of the enrollment in slot c
PersistFails(c) ==
  /\ pc[c] = "enroll_commit"
  /\ resp'[c].status = "error" /\ resp'[c].exc = "OperationalError"

\* C12 as claimed: after an embedding insert of an enrollment failed, the store holds
\* a Person row of that id with fewer embeddings than the request had usable photos.
C12_PartialPersonVisible ==
  [][ \A c \in Calls :
        PersistFails(c)
          => \E i \in 1 .. Len(persons') :
               /\ persons'[i].id_person = req[c].id_person
               /\ Len(persons'[i].embeddings) < Len(loc[c].embeddings) ]_vars

\* C12 amended: when an embedding insert of an enrollment fails after the Person row
\* was flushed, the call ends in an error and the whole enrollment is rolled back:
\* the store holds neither a Person row of that id nor any of its embeddings.
C12_FailedEnrollmentRolledBack ==
  [][ \A c \in Calls :
        PersistFails(c)
          => /\ pc'[c] = "failed"
             /\ persons' = persons
             /\ \A i \in 1 .. Len(persons') : persons'[i].id_person # req[c].id_person
             /\ \A j \in 1 .. Len(loc[c].embeddings) :
                  loc[c].embeddings[j].photo_id \notin StoredPhotoIds(persons') ]_vars

\* a two-photo enrollment whose second embedding insert failed
C12_Witness ==
  \E c \in Calls :
    /\ IsEnroll(c) /\ pc[c] = "failed"
    /\ resp[c].exc = "OperationalError"
    /\ Len(loc[c].embeddings) = 2
    /\ \A i \in 1 .. Len(persons) : persons[i].id_person # req[c].id_person

\* every stored embedding with its owner, in table order
RECURSIVE StoredEmbeddings(_)
StoredEmbeddings(table) ==
  IF table = << >> THEN << >>
  ELSE [ j \in 1 .. Len(table[1].embeddings) |->
           [owner |-> table[1].id, row |-> table[1].embeddings[j]] ]
         \o StoredEmbeddings(Tail(table))

\* C13: stored embeddings are immutable and append-only: whatever step is taken
\* (enroll, verify, deactivate), every embedding already stored stays as it is
\* with the owner it had, active or not, and new ones only come after them.
C13_EmbeddingsAppendOnly ==
  [][ IsPrefix(StoredEmbeddings(persons), StoredEmbeddings(persons')) ]_vars

\* a deactivated person whose embeddings are still stored, and the embeddings of
\* a later enrollment stored after them
C13_Witness ==
  /\ Len(persons) = 2
  /\ ~persons[1].is_active /\ persons[2].is_active
  /\ Len(persons[1].embeddings) = 2
  /\ Len(StoredEmbeddings(persons)) = 3

\* C14: photo ids are unique across the whole store: no two stored embeddings, of
\* the same person or of different persons, carry the same photo id.
C14_PhotoIdsUnique ==
  LET all == StoredEmbeddings(persons)
  IN \A i, j \in 1 .. Len(all) : all[i].row.photo_id = all[j].row.photo_id => i = j

\* two enrolled persons with two photos each, the photos at the same positions
C14_Witness ==
  /\ Len(persons) = 2
  /\ Len(persons[1].embeddings) = 2 /\ Len(persons[2].embeddings) = 2
  /\ persons[1].embeddings[2].photo_id[3] = persons[2].embeddings[2].photo_id[3]

\* C15 as claimed: two verify calls that end with the same verdict and the same
\* similarity return the same explanation text.
C15_ExplainByVerdictAndScore ==
  \A c, d \in Calls :
    (Answered(c) /\ Answered(d)
       /\ resp[c].verdict = resp[d].verdict /\ resp[c].similarity = resp[d].similarity)
      => resp[c].explain = resp[d].explain

\* C15 amended: two verify calls that end with the same verdict, the same similarity
\* and the same candidate name return the same explanation text.
C15_ExplainByVerdictScoreAndName ==
  \A c, d \in Calls :
    (Answered(c) /\ Answered(d)
       /\ resp[c].verdict = resp[d].verdict /\ resp[c].similarity = resp[d].similarity
       /\ resp[c].name_candidate = resp[d].name_candidate)
      => resp[c].explain = resp[d].explain

\* two answered calls with different probes that matched different photos of the
\* same person with the same similarity
C15_Witness ==
  \E c, d \in Calls :
    /\ Answered(c) /\ Answered(d)
    /\ req[c].image # req[d].image
    /\ resp[c].verdict = MATCH /\ resp[d].verdict = MATCH
    /\ resp[c].similarity = resp[d].similarity
    /\ resp[c].name_candidate = resp[d].name_candidate
    /\ resp[c].matched_reference_photo_id # resp[d].matched_reference_photo_id

\* the probe embedding of the call in slot c
ProbeOf(c) == loc[c].extraction[1].embedding

\* C16: cosine_similarity lies in [0,1], and is 0 when the dot product is not
\* positive, for the probe of every call and every stored vector it is compared
\* with; the similarity of every verify result that has one lies in [0,1].
C16_SimilarityInUnitRange ==
  /\ \A c \in Calls :
       (Answered(c) /\ resp[c].similarity # None) => resp[c].similarity[1] \in 0 .. SimScale
  /\ \A c \in Calls :
       (IsVerify(c) /\ pc[c] = "search")
         => LET all == StoredEmbeddings(persons)
            IN \A k \in 1 .. Len(all) :
                 LET ref == RefEmbedding(all[k].row, ProbeOf(c))
                     similarity == cosine_similarity(ProbeOf(c), ref)
                 IN /\ similarity \in 0 .. SimScale
                    /\ Dot(ProbeOf(c).num, ref.num) <= 0 => similarity = 0

\* a result whose best stored vector points away from the probe: similarity 0
C16_Witness ==
  \E c \in Calls :
    /\ Answered(c) /\ resp[c].similarity = Some(0)
    /\ LET all == StoredEmbeddings(persons)
       IN \E k \in 1 .. Len(all) :
            /\ all[k].row.photo_id = resp[c].matched_reference_photo_id[1]
            /\ Dot(ProbeOf(c).num, RefEmbedding(all[k].row, ProbeOf(c)).num) < 0

\* the stored embeddings of the persons with is_active set, in table order
ActiveEmbeddings == StoredEmbeddings(SelectSeq(persons, LAMBDA q : q.is_active))
\* the step in which the call in slot c searches the tables
Searches(c) == IsVerify(c) /\ pc[c] = "search" /\ pc'[c] # "search"
\* similarity of the probe of slot c with the k-th active stored embedding
SimilarityTo(c, k) ==
  cosine_similarity(ProbeOf(c), RefEmbedding(ActiveEmbeddings[k].row, ProbeOf(c)))

\* C17: a search over a base with active embeddings returns the maximum similarity
\* over all of them; the person and photo id returned are those of the first
\* embedding, in table order, that reaches this maximum.
C17_MaxFirstWins ==
  [][ \A c \in Calls :
        (Searches(c) /\ ActiveEmbeddings # << >>)
          => /\ loc'[c].match_result # None
             /\ LET m == loc'[c].match_result[1]
                IN \E k \in 1 .. Len(ActiveEmbeddings) :
                     /\ m.best_similarity = SimilarityTo(c, k)
                     /\ \A j \in 1 .. Len(ActiveEmbeddings) :
                          /\ SimilarityTo(c, j) <= m.best_similarity
                          /\ j < k => SimilarityTo(c, j) < m.best_similarity
                     /\ m.person.id = ActiveEmbeddings[k].owner
                     /\ m.best_photo_id = ActiveEmbeddings[k].row.photo_id ]_vars

\* a search in which the first person's vector and both of the second person's
\* reach the maximum: the first person's photo is returned
C17_Witness ==
  \E c \in Calls :
    /\ Answered(c) /\ loc[c].match_result # None
    /\ Len(ActiveEmbeddings) = 3
    /\ \A k \in 1 .. 3 : SimilarityTo(c, k) = SimScale
    /\ loc[c].match_result[1].best_similarity = SimScale
    /\ loc[c].match_result[1].best_photo_id = ActiveEmbeddings[1].row.photo_id

\* C18: in a base built by enroll and deactivate every Person row has at least
\* one embedding, and a search returns no match exactly when no person is
\* active: with an active person it returns a person, a similarity and a photo id.
C18_NoMatchOnlyWhenEmpty ==
  /\ [](\A i \in 1 .. Len(persons) : persons[i].embeddings # << >>)
  /\ [][ \A c \in Calls :
           Searches(c)
             => /\ loc'[c].match_result = None <=> NoActivePerson
                /\ ~NoActivePerson
                     => /\ loc'[c].match_result[1].person.is_active
                        /\ loc'[c].match_result[1].best_similarity \in 0 .. SimScale
                        /\ loc'[c].match_result[1].best_photo_id
                             \in StoredPhotoIds(<<loc'[c].match_result[1].person>>) ]_vars

\* a search that found nothing alike still returned the enrolled person, with
\* similarity 0
C18_Witness ==
  \E c \in Calls :
    /\ Answered(c) /\ loc[c].match_result # None
    /\ loc[c].match_result[1].best_similarity = 0
    /\ loc[c].match_result[1].person.id_person \in PersonIds
    /\ Len(persons) = 1 /\ persons[1].is_active

\* the k-th active stored vector as stored, and cut or zero-filled to n components
StoredVector(k) == binary_to_embedding(ActiveEmbeddings[k].row.embedding, "float32")
Fitted(k, n) ==
  [StoredVector(k) EXCEPT !.num = [ i \in 1 .. n |-> IF i <= Len(@) THEN @[i] ELSE 0 ]]
\* positions of the active stored vectors whose length is not n
Mismatched(n) ==
  { k \in 1 .. Len(ActiveEmbeddings) : Len(StoredVector(k).num) # n }

\* C19: a search over a base holding a stored vector of another length than the
\* probe's raises no error and answers; the similarity it returns is the maximum,
\* over all active stored vectors, of the similarity of the probe with the vector
\* cut (if longer) or zero-filled (if shorter) to the probe's length.
C19_MismatchedLengthFitted ==
  [][ \A c \in Calls :
        (Searches(c) /\ Mismatched(Len(ProbeOf(c).num)) # {})
          => LET n == Len(ProbeOf(c).num)
                 sims == { cosine_similarity(ProbeOf(c), Fitted(k, n)) :
                             k \in 1 .. Len(ActiveEmbeddings) }
             IN /\ pc'[c] = "returned"
                /\ resp'[c].status = "ok"
                /\ loc'[c].match_result # None
                /\ loc'[c].match_result[1].best_similarity \in sims
                /\ \A x \in sims : x <= loc'[c].match_result[1].best_similarity ]_vars

\* a search that passed a longer and a shorter stored vector and matched the
\* vector of the probe's length that came after them
C19_Witness ==
  \E c \in Calls :
    /\ Answered(c) /\ loc[c].match_result # None
    /\ Len(ActiveEmbeddings) = 3
    /\ Len(StoredVector(1).num) > Len(ProbeOf(c).num)
    /\ Len(StoredVector(2).num) < Len(ProbeOf(c).num)
    /\ Len(StoredVector(3).num) = Len(ProbeOf(c).num)
    /\ loc[c].match_result[1].best_photo_id = ActiveEmbeddings[3].row.photo_id
    /\ resp[c].verdict = MATCH

\* the call in slot c was given at least LIVENESS_MIN_FRAMES frames, all alike
IdenticalBurst(c) ==
  /\ IsVerify(c)
  /\ Len(req[c].frames) >= LIVENESS_MIN_FRAMES
  /\ \A i \in 1 .. Len(req[c].frames) : req[c].frames[i] = req[c].frames[1]

\* C20: for a burst of at least LIVENESS_MIN_FRAMES identical frames the motion
\* score and the temporal-variance score are 0, the combined score is 0.3 times
\* the texture score and so at most 0.3, and the liveness verdict is never live:
\* spoof when the texture score is below 1, unknown when it is 1.
C20_StaticBurstNeverLive ==
  \A c \in Calls :
    (IdenticalBurst(c) /\ pc[c] # "idle")
      => LET scores == MultiFrameScores(req[c].frames)
             texture == req[c].frames[1].texture
         IN /\ scores.motion_score.n = 0
            /\ scores.variance_score.n = 0
            /\ scores.combined10.d % SimScale = 0
            /\ scores.combined10.n = 3 * texture * (scores.combined10.d \div SimScale)
            /\ scores.combined10.n <= 3 * scores.combined10.d
            /\ loc[c].liveness_result # LIVE
            /\ loc[c].liveness_result = SPOOF <=> texture < SimScale
            /\ loc[c].liveness_result = UNKNOWN <=> texture = SimScale

\* a static burst of the richest texture was searched with liveness unknown
C20_Witness ==
  \E c \in Calls :
    /\ IdenticalBurst(c) /\ pc[c] = "done"
    /\ req[c].frames[1].texture = SimScale
    /\ loc[c].liveness_result = UNKNOWN
    /\ resp[c].verdict = NOT_FOUND

\* the decision of the multi-frame analysis on its combined score
MultiFrameVerdict(frames) ==
  LET c10 == MultiFrameScores(frames).combined10
  IN IF c10.n > 5 * c10.d THEN LIVE ELSE IF c10.n < 3 * c10.d THEN SPOOF ELSE UNKNOWN

\* C21: the liveness mode depends on the number of frames only: with no frame
\* list or a list of at most one frame the result is the single-frame verdict of
\* the probe image; with 2 to LIVENESS_MIN_FRAMES - 1 frames it is the single-frame
\* verdict of the first frame; with LIVENESS_MIN_FRAMES or more it is the verdict
\* of the multi-frame analysis.
C21_ModeByFrameCount ==
  \A c \in Calls :
    (IsVerify(c) /\ req[c].check_liveness)
      => LET frames == req[c].frames
             t == Len(frames)
             r == loc[c].liveness_result
         IN /\ t <= 1 => r = _check_single_frame(req[c].image)
            /\ (t >= 2 /\ t < LIVENESS_MIN_FRAMES) => r = _check_single_frame(frames[1])
            /\ t >= LIVENESS_MIN_FRAMES => r = MultiFrameVerdict(frames)

\* the same static scene judged live from four frames and spoof from five
C21_Witness ==
  \E c, d \in Calls :
    /\ IsVerify(c) /\ IsVerify(d)
    /\ Len(req[c].frames) = LIVENESS_MIN_FRAMES - 1
    /\ Len(req[d].frames) = LIVENESS_MIN_FRAMES
    /\ req[c].frames[1] = req[d].frames[1]
    /\ loc[c].liveness_result = LIVE
    /\ loc[d].liveness_result = SPOOF

\* the gray frames of the call in slot c
GrayOf(c) == [ i \in 1 .. Len(req[c].frames) |-> req[c].frames[i].gray ]
InUnit(q) == q.d > 0 /\ 0 <= q.n /\ q.n <= q.d

\* C22: in multi-frame mode motion, texture and variance score lie in [0,1], and
\* with combined = 0.5 * motion + 0.3 * texture + 0.2 * variance the verdict is
\* live exactly when combined > 0.5, spoof exactly when combined < 0.3, and
\* unknown otherwise, 0.3 and 0.5 included.
C22_MultiFrameDecision ==
  \A c \in Calls :
    (IsVerify(c) /\ pc[c] # "idle" /\ Len(req[c].frames) >= LIVENESS_MIN_FRAMES)
      => LET m == _calculate_motion_score(GrayOf(c))
             t == req[c].frames[1].texture
             v == _calculate_temporal_variance(GrayOf(c))
             \* ten times the combined score is num / den
             den == m.d * v.d * SimScale
             num == 5 * m.n * v.d * SimScale + 3 * t * m.d * v.d + 2 * v.n * m.d * SimScale
             r == loc[c].liveness_result
         IN /\ InUnit(m) /\ InUnit(v) /\ t \in 0 .. SimScale
            /\ r = LIVE <=> num > 5 * den
            /\ r = SPOOF <=> num < 3 * den
            /\ r = UNKNOWN <=> (3 * den <= num /\ num <= 5 * den)

\* two bursts whose combined scores are exactly 0.5 and exactly 0.3: both unknown
C22_Witness ==
  \E c, d \in Calls :
    /\ IsVerify(c) /\ req[c].frames = EdgeBurst
    /\ MultiFrameScores(EdgeBurst).combined10.n = 5 * MultiFrameScores(EdgeBurst).combined10.d
    /\ loc[c].liveness_result = UNKNOWN
    /\ IdenticalBurst(d) /\ req[d].frames[1].texture = SimScale
    /\ loc[d].liveness_result = UNKNOWN

\* the call in slot c had its probe image judged by the single-frame check
SingleFrameCall(c) ==
  IsVerify(c) /\ pc[c] # "idle" /\ req[c].check_liveness /\ Len(req[c].frames) <= 1

\* C23: in single-frame mode, with score the mean of texture and frequency score,
\* the verdict is live exactly when score > 0.30, spoof exactly when score < 0.18,
\* and unknown otherwise; exactly one of the three holds for every score in [0,1].
C23_SingleFrameDecision ==
  \A c \in Calls :
    SingleFrameCall(c)
      => LET twice == req[c].image.texture + req[c].image.frequency
             r == loc[c].liveness_result
         IN /\ twice \in 0 .. 2 * SimScale
            /\ r = LIVE <=> twice > 2 * 30
            /\ r = SPOOF <=> twice < 2 * 18
            /\ r = UNKNOWN <=> (2 * 18 <= twice /\ twice <= 2 * 30)
            /\ Cardinality({ x \in LivenessEnum : x = r }) = 1

\* two probes whose scores are exactly 0.30 and exactly 0.18: both unknown
C23_Witness ==
  \E c, d \in Calls :
    /\ SingleFrameCall(c) /\ SingleFrameCall(d)
    /\ req[c].image.texture + req[c].image.frequency = 2 * 30
    /\ req[d].image.texture + req[d].image.frequency = 2 * 18
    /\ loc[c].liveness_result = UNKNOWN /\ loc[d].liveness_result = UNKNOWN

\* the average normalized frame difference of the burst in slot c is
\* AvgMotionNum(c) / AvgMotionDen(c)
AvgMotionNum(c) ==
  SeqSum([ i \in 1 .. (Len(GrayOf(c)) - 1) |->
             SeqSum([ p \in 1 .. Len(GrayOf(c)[1]) |->
                        Abs(GrayOf(c)[i + 1][p] - GrayOf(c)[i][p]) ]) ])
AvgMotionDen(c) == 255 * Len(GrayOf(c)[1]) * (Len(GrayOf(c)) - 1)

\* C24: for an average normalized frame difference m the motion score is m / 0.01
\* when m < 0.01, 1 when 0.01 <= m <= 0.10, and max(0.5, 1 - (m - 0.10) / 0.2)
\* when m > 0.10; it lies in [0,1] and is at least 0.5 once m >= 0.01.
C24_MotionScoreShape ==
  \A c \in Calls :
    (IsVerify(c) /\ Len(req[c].frames) >= 2)
      => LET an == AvgMotionNum(c)
             ad == AvgMotionDen(c)
             score == _calculate_motion_score(GrayOf(c))
         IN /\ InUnit(score)
            /\ 100 * an < ad => score.n * ad = 100 * an * score.d
            /\ (100 * an >= ad /\ 10 * an <= ad) => score.n = score.d
            /\ 10 * an > ad
                 => IF 3 * ad - 10 * an > ad
                    THEN score.n * 2 * ad = (3 * ad - 10 * an) * score.d
                    ELSE 2 * score.n = score.d
            /\ 100 * an >= ad => 2 * score.n >= score.d

\* bursts with average motion exactly 0.01 and exactly 0.10, both scored 1
C24_Witness ==
  \E c, d \in Calls :
    /\ IsVerify(c) /\ IsVerify(d)
    /\ Len(req[c].frames) = 6 /\ Len(req[d].frames) = 6
    /\ 100 * AvgMotionNum(c) = AvgMotionDen(c)
    /\ 10 * AvgMotionNum(d) = AvgMotionDen(d)
    /\ _calculate_motion_score(GrayOf(c)).n = _calculate_motion_score(GrayOf(c)).d
    /\ _calculate_motion_score(GrayOf(d)).n = _calculate_motion_score(GrayOf(d)).d

\* two images that differ at most in their lighting and blur scores
SameScene(a, b) ==
  [a EXCEPT !.lighting = 0, !.blur = 0] = [b EXCEPT !.lighting = 0, !.blur = 0]
SameScenes(as, bs) ==
  Len(as) = Len(bs) /\ \A i \in 1 .. Len(as) : SameScene(as[i], bs[i])
\* how far an enrollment got before anything depended on the store
EnrollOutcome(c) == IF pc[c] = "failed" THEN resp[c].detail ELSE "accepted"
StoreDependent == {"already_enrolled", "unique", "persist"}
\* the vectors stored for a person id
VectorsOf(id_person) ==
  LET person == PersonByIdPerson(persons, id_person)[1]
  IN [ i \in 1 .. Len(person.embeddings) |-> person.embeddings[i].embedding ]

C26_PhotoCountIsEmbeddingCount ==
  /\ [](\A i \in 1 .. Len(persons) :
          /\ persons[i].photo_count = Len(persons[i].embeddings)
          /\ persons[i].photo_count >= 1)
  /\ [][ \A i \in 1 .. Len(persons) :
           /\ i <= Len(persons')
           /\ persons'[i].photo_count = persons[i].photo_count
           /\ Len(persons'[i].embeddings) = Len(persons[i].embeddings) ]_vars

\* a deactivated person with two photos, and a person just enrolled from two
\* images of which one showed a face
C26_Witness ==
  \E c \in Calls :
    /\ Len(persons) = 2
    /\ ~persons[1].is_active
    /\ persons[1].photo_count = 2 /\ Len(persons[1].embeddings) = 2
    /\ IsEnroll(c) /\ pc[c] = "done"
    /\ Len(req[c].images) = 2
    /\ persons[2].id_person = req[c].id_person
    /\ persons[2].photo_count = 1 /\ Len(persons[2].embeddings) = 1

\* a row of persons carries this id_person, active or not
EnrolledId(id_person) == \E i \in 1 .. Len(persons) : persons[i].id_person = id_person

\* C27: a person id stays reserved after deactivation: an enroll call that arrives
\* for an id already in the store, active or deactivated, is refused by the
\* duplicate check, an enroll call that reaches its commit for such an id fails
\* there, neither adds a row, no step changes the id of a row, and no step sets
\* a deactivated row back to active.
C27_IdStaysReserved ==
  [][ /\ \A c \in Calls :
           (BeginsEnroll(c) /\ EnrolledId(req'[c].id_person))
             => /\ pc'[c] = "failed"
                /\ resp'[c].exc = "ValueError"
                /\ req'[c].images # << >> => resp'[c].detail = "already_enrolled"
                /\ persons' = persons
      /\ \A c \in Calls :
           (pc[c] = "enroll_commit" /\ pc'[c] # pc[c] /\ EnrolledId(req[c].id_person))
             => /\ pc'[c] = "failed"
                /\ persons' = persons
      /\ \A i \in 1 .. Len(persons) :
           /\ i <= Len(persons')
           /\ persons'[i].id_person = persons[i].id_person
           /\ ~persons[i].is_active => ~persons'[i].is_active ]_vars

\* an enrollment with a usable photo refused for the id of a deactivated person
C27_Witness ==
  \E c \in Calls :
    /\ IsEnroll(c) /\ pc[c] = "failed"
    /\ resp[c].detail = "already_enrolled"
    /\ FacePositions(req[c].images) # {}
    /\ Len(persons) = 1
    /\ persons[1].id_person = req[c].id_person
    /\ ~persons[1].is_active

\* C28: under any interleaving of two concurrent enroll calls for the same person
\* id at most one succeeds and the store never holds two Person rows with that
\* id; the call that reaches its insert after the other committed fails there on
\* the uniqueness constraint (IntegrityError, HTTP 500) and leaves the store,
\* embeddings included, as it was.
C28_ConcurrentEnrollOneWinner ==
  /\ [](\A i, j \in 1 .. Len(persons) : persons[i].id_person = persons[j].id_person => i = j)
  /\ [](\A c, d \in Calls :
          (c # d /\ IsEnroll(c) /\ IsEnroll(d) /\ req[c].id_person = req[d].id_person)
            => ~(pc[c] = "done" /\ pc[d] = "done"))
  /\ [][ \A c, d \in Calls :
           ( /\ c # d /\ IsEnroll(c) /\ IsEnroll(d)
             /\ req[c].id_person = req[d].id_person
             /\ pc[c] = "enroll_commit" /\ pc'[c] # pc[c]
             /\ pc[d] = "done" )
             => /\ pc'[c] = "failed"
                /\ resp'[c].status = "error"
                /\ resp'[c].exc = "IntegrityError"
                /\ persons' = persons
                /\ StoredEmbeddings(persons') = StoredEmbeddings(persons) ]_vars

\* two enroll calls for one id both passed the existence check; one committed
\* and the other failed on the unique index
C28_Witness ==
  \E c, d \in Calls :
    /\ c # d /\ IsEnroll(c) /\ IsEnroll(d)
    /\ req[c].id_person = req[d].id_person
    /\ pc[c] = "done" /\ pc[d] = "failed"
    /\ resp[d].exc = "IntegrityError"
    /\ loc[d].embeddings # << >>
    /\ Len(persons) = 1
    /\ Len(persons[1].embeddings) = Len(loc[c].embeddings)

\* the call in slot c has returned a verification result
Returned(c) == IsVerify(c) /\ pc[c] \in {"returned", "done"} /\ resp[c].status = "ok"
\* the liveness check of the call in slot c did not run or did not find a spoof
NotSpoofed(c) == req[c].check_liveness => loc[c].liveness_result # SPOOF

\* C29: the liveness result reaches the verdict only through the spoof
\* short-circuit: two verify calls on the same face and store whose liveness
\* check came out live, unknown or did not run return the same verdict,
\* candidate and similarity; a call with check_liveness off reports liveness
\* unknown and never the verdict SPOOF.
C29_LivenessOnlyGatesSpoof ==
  /\ \A c, d \in Calls :
       ( /\ Returned(c) /\ Returned(d)
         /\ req[c].image.face = req[d].image.face
         /\ req[c].image.hist = req[d].image.hist
         /\ NotSpoofed(c) /\ NotSpoofed(d) )
         => /\ resp[c].verdict = resp[d].verdict
            /\ resp[c].id_candidate = resp[d].id_candidate
            /\ resp[c].similarity = resp[d].similarity
  /\ \A c \in Calls :
       (Returned(c) /\ ~req[c].check_liveness)
         => /\ resp[c].liveness = UNKNOWN
            /\ resp[c].verdict # SPOOF

\* the same face matched once with the check off and once in a burst that the
\* check found live
C29_Witness ==
  \E c, d \in Calls :
    /\ Returned(c) /\ Returned(d)
    /\ req[c].image.hist = req[d].image.hist
    /\ ~req[c].check_liveness /\ resp[c].liveness = UNKNOWN
    /\ req[d].route = "verify_multi_frame" /\ resp[d].liveness = LIVE
    /\ resp[c].verdict = MATCH /\ resp[d].verdict = MATCH
    /\ resp[c].similarity = resp[d].similarity

\* C30: when the detector model failed to load, a verify call returns SPOOF
\* (liveness check on and spoof found, before detection is attempted) or raises,
\* and never reaches the search; an enroll call raises; no step changes the
\* persons or their embeddings; and no step ever changes model_loaded.
C30_NoModelNoIdentity ==
  /\ [][model_loaded' = model_loaded]_vars
  /\ [][~model_loaded => persons' = persons]_vars
  /\ [](~model_loaded =>
          \A c \in Calls :
            /\ IsVerify(c)
                 => /\ pc[c] \in {"returned", "done", "failed"}
                    /\ \/ resp[c].status = "error"
                       \/ /\ resp[c].status = "ok"
                          /\ resp[c].verdict = SPOOF
                          /\ req[c].check_liveness
                          /\ \A i \in 1 .. Len(loc[c].stages) : loc[c].stages[i] # "extract"
            /\ IsEnroll(c)
                 => /\ pc[c] = "failed"
                    /\ resp[c].status = "error")

\* without the model: a spoofed probe answered SPOOF, and an enrollment of a
\* new id with a usable photo refused with the detector's error
C30_Witness ==
  \E c, d \in Calls :
    /\ ~model_loaded
    /\ IsVerify(c) /\ pc[c] = "done" /\ resp[c].status = "ok" /\ resp[c].verdict = SPOOF
    /\ IsEnroll(d) /\ pc[d] = "failed"
    /\ resp[d].exc = "RuntimeError" /\ resp[d].detail = "model_not_loaded"
    /\ FacePositions(req[d].images) # {}
    /\ persons = << >>

====
